---- MODULE Spec2Model ----
(***************************************************************************)
(* Model of gns3.project.Project (src/gns3/project.py): one Project        *)
(* object, the compute servers it talks to, and the requests whose         *)
(* callbacks are still to be called by the HTTP client.                    *)
(*                                                                         *)
(* Every public call and every response delivery is one action.  The       *)
(* variables event, sent and signals describe the step that led to the     *)
(* current state (which call or response it was, the requests it handed to *)
(* the HTTP client and the Qt signals it emitted, in order); they are      *)
(* overwritten by every step.                                              *)
(*                                                                         *)
(* Not modelled: name, type, topologyFile and the setters setId,           *)
(* setFilesDir, setName, setType, setTopologyFile; project_id values are   *)
(* non-empty strings.  commit and moveFromTemporaryToPath pass no          *)
(* callback, so their requests are seen in sent only.                      *)
(***************************************************************************)
EXTENDS Integers, Sequences, FiniteSets, Bags, TLC

\* ------------------------------------------------------------------ bounds

\* Largest number of requests whose callback has not been called yet.
MaxInFlight == 2

\* ------------------------------------------------------------------ values

\* Python's None.
None == "<None>"

\* Servers.instance(): the local server and one remote compute server.
LocalServer == "local"
RemoteServer == "remote"
Servers == {LocalServer, RemoteServer}

\* project_id values a server may return in a creation response.
ProjectIds == {"abc", "def"}

\* Directories: the one a local server answers with, the one the caller
\* passes to moveFromTemporaryToPath.
ServerPath == "/srv/p"
NewPath == "/new"

\* Caller supplied arguments of get/post/put/delete.
CallerPaths == {"/vms"}
CallerBody == [name |-> "vm1"]
EmptyBody == [k \in {} |-> None]
CallerCallback == [fn |-> "caller"]
CallerContext == "ctx1"
NoCallback == [fn |-> "None"]

\* The project object itself, as a member of Project._project_instances.
Self == "project"

\* str.format of a value: None prints as "None".
Str(v) == IF v = None THEN "None" ELSE v

\* Python truthiness of self._id (None and "" are false).
Truthy(v) == v # None /\ v # ""

\* All orders in which `for server in list(a_set)` may visit the set.
Orders(S) ==
    {q \in [1..Cardinality(S) -> S] : \A s \in S : \E i \in 1..Cardinality(S) : q[i] = s}

VARIABLES
    id,                 \* self._id
    temporary,          \* self._temporary
    closed,             \* self._closed
    files_dir,          \* self._files_dir
    created_servers,    \* self._created_servers
    project_instances,  \* Project._project_instances
    network,            \* bag of requests waiting for their response
    event,              \* the call or response of the last step
    sent,               \* requests handed to the HTTP client by the last step
    signals,            \* signals emitted by the last step, with closed() then
    closeWait,          \* history: servers of the latest close() call that
                        \*   have not yet answered a close successfully
    createdSinceClose   \* history: a creation succeeded since that close(),
                        \*   while closeWait is not empty

project == <<id, temporary, closed, files_dir, created_servers, project_instances>>
history == <<closeWait, createdSinceClose>>
vars == <<id, temporary, closed, files_dir, created_servers, project_instances,
          network, event, sent, signals,
          closeWait, createdSinceClose>>

\* ------------------------------------------------------------------ requests

\* A request handed to the HTTP client: server.createHTTPQuery(method, path,
\* callback, body, context) and its shorthands server.post / server.put.
Request(server, method, path, callback, body, context) ==
    [server |-> server, method |-> method, path |-> path,
     callback |-> callback, body |-> body, context |-> context]

\* functools.partial(self._projectOnServerCreated, method, path, callback, body,
\* context=context)
Partial(method, path, callback, body, context) ==
    [fn |-> "_projectOnServerCreated", method |-> method, path |-> path,
     callback |-> callback, body |-> body, context |-> context]

ClosedCallback == [fn |-> "_project_closed"]

\* As CreationBody, but the path is sent to every server.
CreationBodyAlwaysWithPath(server) ==
    [temporary |-> temporary, project_id |-> id, path |-> files_dir]

\* The body of the creation POST.
CreationBody(server) ==
    IF server = LocalServer
    THEN [temporary |-> temporary, project_id |-> id, path |-> files_dir]
    ELSE [temporary |-> temporary, project_id |-> id]

\* What the HTTP client keeps of a request until its response arrives: the
\* server and the callback to call, and of the body the project_id that a
\* creation POST carries (None for any other request).  stale (history) marks a
\* close request issued before the latest succeeded creation on its server.
Waiting(req) ==
    [server |-> req.server, callback |-> req.callback, stale |-> FALSE,
     project_id |-> IF "project_id" \in DOMAIN req.body
                    THEN req.body.project_id
                    ELSE None]

InFlight == BagCardinality(network)
Room(n) == InFlight + n <= MaxInFlight

IsCreation(m) == m.callback.fn = "_projectOnServerCreated"
IsClose(m) == m.callback.fn = "_project_closed"

\* The last step: the call (op, its server and its argument arg) or the
\* response (op, the server that answers, the answer arg, the error flag, and
\* whether the callback raised).
Event(op, server, arg, error, raised) ==
    [op |-> op, server |-> server, arg |-> arg, error |-> error, raised |-> raised]

QueryOps == {"get", "post", "put", "delete"}

Emit(name, closedNow) == [name |-> name, closed |-> closedNow]

\* ------------------------------------------------------------------ Init

Init ==
    /\ id = None
    /\ temporary = FALSE
    /\ closed = FALSE
    /\ files_dir = None
    /\ created_servers = {}
    /\ project_instances = {Self}
    /\ network = EmptyBag
    /\ event = Event("init", None, None, FALSE, FALSE)
    /\ sent = <<>>
    /\ signals = <<>>
    /\ closeWait = {}
    /\ createdSinceClose = FALSE

\* ------------------------------------------------------------------ handlers

\* As ProjectOnServerCreated, but every answer's project_id is adopted.
ProjectOnServerCreatedOverwritesId(method, path, callback, body, params, error, server, context) ==
    IF error
    THEN /\ UNCHANGED project
         /\ sent' = <<>>
    ELSE /\ id' = IF "project_id" \in DOMAIN params THEN params.project_id ELSE id
         /\ files_dir' = IF server = LocalServer /\ "path" \in DOMAIN params
                         THEN params.path
                         ELSE files_dir
         /\ closed' = FALSE
         /\ created_servers' = created_servers \cup {server}
         /\ sent' = <<Request(server, method, "/projects/" \o Str(id') \o path,
                              callback, body, context)>>
         /\ UNCHANGED <<temporary, project_instances>>

\* As ProjectOnServerCreated, but the server is recorded before the error
\* flag is looked at.
ProjectOnServerCreatedAddsOnError(method, path, callback, body, params, error, server, context) ==
    IF error
    THEN /\ created_servers' = created_servers \cup {server}
         /\ UNCHANGED <<id, temporary, closed, files_dir, project_instances>>
         /\ sent' = <<>>
    ELSE /\ id' = IF id = None THEN params.project_id ELSE id
         /\ files_dir' = IF server = LocalServer /\ "path" \in DOMAIN params
                         THEN params.path
                         ELSE files_dir
         /\ closed' = FALSE
         /\ created_servers' = created_servers \cup {server}
         /\ sent' = <<Request(server, method, "/projects/" \o Str(id') \o path,
                              callback, body, context)>>
         /\ UNCHANGED <<temporary, project_instances>>

\* As ProjectOnServerCreated, but the server is not recorded as created.
ProjectOnServerCreatedForgetsServer(method, path, callback, body, params, error, server, context) ==
    IF error
    THEN /\ UNCHANGED project
         /\ sent' = <<>>
    ELSE /\ id' = IF id = None THEN params.project_id ELSE id
         /\ files_dir' = IF server = LocalServer /\ "path" \in DOMAIN params
                         THEN params.path
                         ELSE files_dir
         /\ closed' = FALSE
         /\ sent' = <<Request(server, method, "/projects/" \o Str(id') \o path,
                              callback, body, context)>>
         /\ UNCHANGED <<temporary, created_servers, project_instances>>

\* As ProjectOnServerCreated, but the closed flag is left as it is.
ProjectOnServerCreatedKeepsClosed(method, path, callback, body, params, error, server, context) ==
    IF error
    THEN /\ UNCHANGED project
         /\ sent' = <<>>
    ELSE /\ id' = IF id = None THEN params.project_id ELSE id
         /\ files_dir' = IF server = LocalServer /\ "path" \in DOMAIN params
                         THEN params.path
                         ELSE files_dir
         /\ created_servers' = created_servers \cup {server}
         /\ sent' = <<Request(server, method, "/projects/" \o Str(id') \o path,
                              callback, body, context)>>
         /\ UNCHANGED <<temporary, closed, project_instances>>

\* As ProjectOnServerCreated, but the answer's path is adopted only when the
\* files directory is not set yet.
ProjectOnServerCreatedKeepsFilesDir(method, path, callback, body, params, error, server, context) ==
    IF error
    THEN /\ UNCHANGED project
         /\ sent' = <<>>
    ELSE /\ id' = IF id = None THEN params.project_id ELSE id
         /\ files_dir' = IF server = LocalServer /\ "path" \in DOMAIN params
                            /\ files_dir = None
                         THEN params.path
                         ELSE files_dir
         /\ closed' = FALSE
         /\ created_servers' = created_servers \cup {server}
         /\ sent' = <<Request(server, method, "/projects/" \o Str(id') \o path,
                              callback, body, context)>>
         /\ UNCHANGED <<temporary, project_instances>>

\* Project._projectOnServerCreated: what it does to the project and what it
\* hands to the HTTP client.  params is the answer of the creation.
ProjectOnServerCreated(method, path, callback, body, params, error, server, context) ==
    IF error
    THEN /\ UNCHANGED project
         /\ sent' = <<>>
    ELSE /\ id' = IF id = None THEN params.project_id ELSE id
         /\ files_dir' = IF server = LocalServer /\ "path" \in DOMAIN params
                         THEN params.path
                         ELSE files_dir
         /\ closed' = FALSE
         /\ created_servers' = created_servers \cup {server}
         /\ sent' = <<Request(server, method, "/projects/" \o Str(id') \o path,
                              callback, body, context)>>
         /\ UNCHANGED <<temporary, project_instances>>

\* As ProjectHTTPQuery, but no second creation POST is sent to a server while
\* one is waiting for its response: the call is dropped.
ProjectHTTPQueryDeduplicated(server, method, path, callback, body, context) ==
    IF server \notin created_servers
    THEN /\ Room(1)
         /\ IF \E m \in BagToSet(network) : IsCreation(m) /\ m.server = server
            THEN /\ sent' = <<>>
                 /\ UNCHANGED network
            ELSE LET func == Partial(method, path, callback, body, context)
                     req == Request(server, "POST", "/projects", func,
                                    CreationBody(server), None)
                 IN /\ sent' = <<req>>
                    /\ network' = network (+) SetToBag({Waiting(req)})
         /\ UNCHANGED project
    ELSE /\ ProjectOnServerCreated(method, path, callback, body, EmptyBody,
                                   FALSE, server, context)
         /\ UNCHANGED network

\* As ProjectHTTPQuery, but body is overwritten by the creation body before
\* the partial is built.
ProjectHTTPQueryCapturesCreationBody(server, method, path, callback, body, context) ==
    IF server \notin created_servers
    THEN /\ Room(1)
         /\ LET func == Partial(method, path, callback, CreationBody(server), context)
                req == Request(server, "POST", "/projects", func,
                               CreationBody(server), None)
            IN /\ sent' = <<req>>
               /\ network' = network (+) SetToBag({Waiting(req)})
         /\ UNCHANGED project
    ELSE /\ ProjectOnServerCreated(method, path, callback, body, EmptyBody,
                                   FALSE, server, context)
         /\ UNCHANGED network

\* As ProjectHTTPQuery, but the server is recorded as created when the
\* creation POST is sent.
ProjectHTTPQueryRecordsAtCall(server, method, path, callback, body, context) ==
    IF server \notin created_servers
    THEN /\ Room(1)
         /\ LET func == Partial(method, path, callback, body, context)
                req == Request(server, "POST", "/projects", func,
                               CreationBody(server), None)
            IN /\ sent' = <<req>>
               /\ network' = network (+) SetToBag({Waiting(req)})
         /\ created_servers' = created_servers \cup {server}
         /\ UNCHANGED <<id, temporary, closed, files_dir, project_instances>>
    ELSE /\ ProjectOnServerCreated(method, path, callback, body, EmptyBody,
                                   FALSE, server, context)
         /\ UNCHANGED network

\* Project._projectHTTPQuery, the body of get/post/put/delete.
ProjectHTTPQuery(server, method, path, callback, body, context) ==
    IF server \notin created_servers
    THEN /\ Room(1)
         /\ LET func == Partial(method, path, callback, body, context)
                req == Request(server, "POST", "/projects", func,
                               CreationBody(server), None)
            IN /\ sent' = <<req>>
               /\ network' = network (+) SetToBag({Waiting(req)})
         /\ UNCHANGED project
    ELSE /\ ProjectOnServerCreated(method, path, callback, body, EmptyBody,
                                   FALSE, server, context)
         /\ UNCHANGED network

\* The requests of `for server in list(self._created_servers): ...`, visited
\* in the order q.
ToEach(q, method, path, callback, body) ==
    [i \in 1..Len(q) |-> Request(q[i], method, path, callback, body, None)]

\* The bag of the requests of a sequence, each waiting for its response.
WaitingAll(reqs) ==
    LET D == {Waiting(reqs[i]) : i \in 1..Len(reqs)}
    IN [m \in D |-> Cardinality({i \in 1..Len(reqs) : Waiting(reqs[i]) = m})]

\* Project._project_closed raises KeyError: set.remove of an absent element,
\* at the server (line 286) or at the project itself (line 290).
ProjectClosedRaises(server) ==
    \/ server \notin created_servers
    \/ /\ created_servers \ {server} = {}
       /\ Self \notin project_instances

\* As ProjectClosed, but the closed flag is not set.
ProjectClosedKeepsOpen(params, error, server) ==
    IF server \notin created_servers
    THEN /\ UNCHANGED project
         /\ signals' = <<>>
    ELSE /\ created_servers' = created_servers \ {server}
         /\ IF created_servers' = {}
            THEN /\ signals' = <<Emit("closed", closed)>>
                 /\ project_instances' = project_instances \ {Self}
                 /\ UNCHANGED closed
            ELSE /\ signals' = <<>>
                 /\ UNCHANGED <<closed, project_instances>>
         /\ UNCHANGED <<id, temporary, files_dir>>

\* Project._project_closed.  The error flag only chooses what is logged.
ProjectClosed(params, error, server) ==
    IF server \notin created_servers
    THEN /\ UNCHANGED project
         /\ signals' = <<>>
    ELSE /\ created_servers' = created_servers \ {server}
         /\ IF created_servers' = {}
            THEN /\ closed' = TRUE
                 /\ signals' = <<Emit("closed", TRUE)>>
                 /\ project_instances' = project_instances \ {Self}
            ELSE /\ signals' = <<>>
                 /\ UNCHANGED <<closed, project_instances>>
         /\ UNCHANGED <<id, temporary, files_dir>>

\* History: the close requests of a server become stale when a creation on
\* that server succeeds.
MarkStale(B, server) ==
    LET Hit(m) == IsClose(m) /\ m.server = server
        f(m) == IF Hit(m) THEN [m EXCEPT !.stale = TRUE] ELSE m
        D == {f(m) : m \in DOMAIN B}
    IN [x \in D |-> IF Hit(x)
                    THEN CopiesIn(x, B) + CopiesIn([x EXCEPT !.stale = FALSE], B)
                    ELSE CopiesIn(x, B)]

\* ------------------------------------------------------------------ calls

\* The part of get/post/put/delete that is the same for the four.
Query(op, server, method, path, body) ==
    /\ ProjectHTTPQuery(server, method, path, CallerCallback, body, CallerContext)
    /\ event' = Event(op, server, path, FALSE, FALSE)
    /\ signals' = <<>>
    /\ UNCHANGED history

Get(server, path) == Query("get", server, "GET", path, EmptyBody)

Post(server, path, body) == Query("post", server, "POST", path, body)

Put(server, path, body) == Query("put", server, "PUT", path, body)

Delete(server, path) == Query("delete", server, "DELETE", path, EmptyBody)

SetTemporary(t) ==
    /\ temporary' = t
    /\ event' = Event("setTemporary", None, t, FALSE, FALSE)
    /\ sent' = <<>>
    /\ signals' = <<>>
    /\ UNCHANGED <<id, closed, files_dir, created_servers, project_instances>>
    /\ UNCHANGED <<network, history>>

Commit ==
    /\ \E q \in Orders(created_servers) :
          sent' = ToEach(q, "POST", "/projects/" \o Str(id) \o "/commit",
                         NoCallback, EmptyBody)
    /\ event' = Event("commit", None, None, FALSE, FALSE)
    /\ signals' = <<>>
    /\ UNCHANGED <<project, network, history>>

\* close() on a project with an identifier: the close POSTs.
CloseOnServers ==
    /\ Room(Cardinality(created_servers))
    /\ signals' = <<Emit("about_to_close", closed)>>
    /\ \E q \in Orders(created_servers) :
          /\ sent' = ToEach(q, "POST", "/projects/" \o Str(id) \o "/close",
                            ClosedCallback, EmptyBody)
          /\ network' = network (+) WaitingAll(sent')
    /\ closeWait' = created_servers
    /\ createdSinceClose' = FALSE
    /\ UNCHANGED project

\* As CloseNotInitialized, but the closed flag is not set.
CloseNotInitializedKeepsOpen ==
    /\ signals' = <<Emit("about_to_close", closed), Emit("closed", closed)>>
    /\ sent' = <<>>
    /\ UNCHANGED project
    /\ UNCHANGED <<network, closeWait, createdSinceClose>>

\* close() on a project without identifier: "The project is not initialized
\* when can close it".
CloseNotInitialized ==
    /\ signals' = <<Emit("about_to_close", closed), Emit("closed", closed)>>
    /\ closed' = TRUE
    /\ sent' = <<>>
    /\ UNCHANGED <<id, temporary, files_dir, created_servers, project_instances>>
    /\ UNCHANGED <<network, closeWait, createdSinceClose>>

Close ==
    /\ IF Truthy(id) THEN CloseOnServers ELSE CloseNotInitialized
    /\ event' = Event("close", None, None, FALSE, FALSE)

\* As MoveFromTemporaryToPath, but the temporary flag is left as it is.
MoveFromTemporaryToPathKeepsFlag(path) ==
    /\ files_dir' = path
    /\ \E q \in Orders(created_servers) :
          sent' = ToEach(q, "PUT", "/projects/" \o Str(id), NoCallback,
                         [path |-> path, temporary |-> temporary])
    /\ event' = Event("moveFromTemporaryToPath", None, path, FALSE, FALSE)
    /\ signals' = <<>>
    /\ UNCHANGED <<id, temporary, closed, created_servers, project_instances>>
    /\ UNCHANGED <<network, history>>

MoveFromTemporaryToPath(path) ==
    /\ files_dir' = path
    /\ temporary' = FALSE
    /\ \E q \in Orders(created_servers) :
          sent' = ToEach(q, "PUT", "/projects/" \o Str(id), NoCallback,
                         [path |-> path, temporary |-> FALSE])
    /\ event' = Event("moveFromTemporaryToPath", None, path, FALSE, FALSE)
    /\ signals' = <<>>
    /\ UNCHANGED <<id, closed, created_servers, project_instances>>
    /\ UNCHANGED <<network, history>>

\* ------------------------------------------------------------------ responses

\* What a server may answer to a creation: a project_id, and maybe a path.
FirstId == "abc"

\* Identifiers are opaque strings that the servers make up: the first one the
\* project adopts is called FirstId, and a later answer repeats the project's
\* identifier or differs from it.
AnswerIds == IF id = None THEN {FirstId} ELSE ProjectIds

CreationAnswers ==
    {[project_id |-> i] : i \in AnswerIds}
        \cup {[project_id |-> i, path |-> ServerPath] : i \in AnswerIds}

ErrorAnswer == [message |-> "error"]

\* The HTTP client calls the partial of a creation POST with a good answer.
CreationSucceeds(m, params) ==
    /\ IsCreation(m)
    /\ LET f == m.callback
       IN ProjectOnServerCreated(f.method, f.path, f.callback, f.body, params,
                                 FALSE, m.server, f.context)
    /\ network' = MarkStale(network (-) SetToBag({m}), m.server)
    /\ event' = Event("creationResponse", m.server, params, FALSE, FALSE)
    /\ signals' = <<>>
    /\ createdSinceClose' = (closeWait # {})
    /\ UNCHANGED closeWait

\* The HTTP client calls the partial of a creation POST with error=True.
CreationFails(m) ==
    /\ IsCreation(m)
    /\ LET f == m.callback
       IN ProjectOnServerCreated(f.method, f.path, f.callback, f.body, ErrorAnswer,
                                 TRUE, m.server, f.context)
    /\ network' = network (-) SetToBag({m})
    /\ event' = Event("creationResponse", m.server, ErrorAnswer, TRUE, FALSE)
    /\ signals' = <<>>
    /\ UNCHANGED history

\* The HTTP client calls _project_closed with a good answer.
CloseSucceeds(m) ==
    /\ IsClose(m)
    /\ ProjectClosed(EmptyBody, FALSE, m.server)
    /\ network' = network (-) SetToBag({m})
    /\ event' = Event("closeResponse", m.server, EmptyBody, FALSE,
                      ProjectClosedRaises(m.server))
    /\ sent' = <<>>
    /\ closeWait' = closeWait \ {m.server}
    /\ createdSinceClose' = (createdSinceClose /\ closeWait' # {})

\* The HTTP client calls _project_closed with error=True.
CloseFails(m) ==
    /\ IsClose(m)
    /\ ProjectClosed(ErrorAnswer, TRUE, m.server)
    /\ network' = network (-) SetToBag({m})
    /\ event' = Event("closeResponse", m.server, ErrorAnswer, TRUE,
                      ProjectClosedRaises(m.server))
    /\ sent' = <<>>
    /\ UNCHANGED history

\* ------------------------------------------------------------------ Next

\* The arguments the calls are tried with: get and put on the local server,
\* post and delete on the remote one (the four methods are one line each, and
\* differ in the method string they pass to _projectHTTPQuery).
CallerBodies == {CallerBody}
GetServers == {LocalServer}
PostServers == {RemoteServer}
PutServers == {LocalServer}
DeleteServers == {RemoteServer}
MovePaths == {NewPath, ServerPath}

Next ==
    \/ \E s \in GetServers, p \in CallerPaths : Get(s, p)
    \/ \E s \in PostServers, p \in CallerPaths, b \in CallerBodies : Post(s, p, b)
    \/ \E s \in PutServers, p \in CallerPaths, b \in CallerBodies : Put(s, p, b)
    \/ \E s \in DeleteServers, p \in CallerPaths : Delete(s, p)
    \/ \E t \in BOOLEAN : SetTemporary(t)
    \/ Commit
    \/ Close
    \/ \E p \in MovePaths : MoveFromTemporaryToPath(p)
    \/ \E m \in BagToSet(network), a \in CreationAnswers : CreationSucceeds(m, a)
    \/ \E m \in BagToSet(network) : CreationFails(m)
    \/ \E m \in BagToSet(network) : CloseSucceeds(m)
    \/ \E m \in BagToSet(network) : CloseFails(m)

Spec == Init /\ [][Next]_vars

\* Every request is answered, and answered well: the responses with the error
\* flag are left out, and a waiting request's callback is eventually called.
NextAnswered ==
    \/ \E s \in GetServers, p \in CallerPaths : Get(s, p)
    \/ \E s \in PostServers, p \in CallerPaths, b \in CallerBodies : Post(s, p, b)
    \/ \E s \in PutServers, p \in CallerPaths, b \in CallerBodies : Put(s, p, b)
    \/ \E s \in DeleteServers, p \in CallerPaths : Delete(s, p)
    \/ \E t \in BOOLEAN : SetTemporary(t)
    \/ Commit
    \/ Close
    \/ \E p \in MovePaths : MoveFromTemporaryToPath(p)
    \/ \E m \in BagToSet(network), a \in CreationAnswers : CreationSucceeds(m, a)
    \/ \E m \in BagToSet(network) : CloseSucceeds(m)

Answer ==
    \/ \E m \in BagToSet(network), a \in CreationAnswers : CreationSucceeds(m, a)
    \/ \E m \in BagToSet(network) : CloseSucceeds(m)

LiveSpec == Init /\ [][NextAnswered]_vars /\ WF_vars(Answer)

\* ------------------------------------------------------------------ observations

IsCreationPost(r) == r.method = "POST" /\ r.path = "/projects"

\* The number of creation requests to a server that wait for their response.
CreationsInFlight(B, s) ==
    LET D == {m \in BagToSet(B) : IsCreation(m) /\ m.server = s}
        RECURSIVE Sum(_)
        Sum(S) == IF S = {} THEN 0
                  ELSE LET m == CHOOSE x \in S : TRUE
                       IN CopiesIn(m, B) + Sum(S \ {m})
    IN Sum(D)

\* The step delivers the successful response of a close request that was
\* issued after the latest succeeded creation on its server.
FreshCloseAnswered ==
    /\ event'.op = "closeResponse"
    /\ ~event'.error
    /\ \E m \in BagToSet(network) :
          /\ IsClose(m) /\ m.server = event'.server /\ ~m.stale
          /\ CopiesIn(m, network') < CopiesIn(m, network)

SignalNames(sig) == [i \in 1..Len(sig) |-> sig[i].name]

ClosedEmitted == \E i \in 1..Len(signals) : signals[i].name = "closed"

\* The requests of a step go to the servers of S, one to each, and each is r(s).
OneToEach(reqs, S, r(_)) ==
    /\ Len(reqs) = Cardinality(S)
    /\ \A s \in S : \E i \in 1..Len(reqs) : reqs[i] = r(s)

\* ------------------------------------------------------------------ claims

\* C1: a server is in the created-servers set if and only if a creation
\* request to it has succeeded and no close of that server issued after that
\* success has completed.  Stated step by step: the set gains the server of a
\* succeeded creation, loses the server of a close that was issued after the
\* latest succeeded creation on it and has completed successfully, and
\* changes in no other way.
CreatedIffSucceededAndNotClosed ==
    [][created_servers' =
          IF event'.op = "creationResponse" /\ ~event'.error
          THEN created_servers \cup {event'.server}
          ELSE IF FreshCloseAnswered
          THEN created_servers \ {event'.server}
          ELSE created_servers]_vars

\* C2: once the identifier has a value, no call and no response changes it.
IdAssignedAtMostOnce == [][id # None => id' = id]_vars

\* A succeeded creation whose answer carries another project_id than the one
\* the project keeps.
IdKeptAgainstOtherAnswer ==
    /\ event.op = "creationResponse"
    /\ ~event.error
    /\ event.arg.project_id # id
    /\ event.server \in created_servers

CloseErrorKeepsServer ==
    [][(event'.op = "closeResponse" /\ event'.error
            /\ event'.server \in created_servers)
          => /\ event'.server \in created_servers'
             /\ closed' = closed
             /\ project_instances' = project_instances
             /\ signals' = <<>>]_vars

\* C5 as stated: a creation response with the error flag changes nothing of
\* the project and dispatches nothing, and a get/post/put/delete on that server
\* that comes next sends a creation POST.
CreationErrorThenRetry ==
    [][/\ (event'.op = "creationResponse" /\ event'.error)
            => (UNCHANGED project /\ sent' = <<>>)
       /\ (event.op = "creationResponse" /\ event.error
             /\ event'.op \in QueryOps /\ event'.server = event.server)
            => (Len(sent') = 1 /\ IsCreationPost(sent'[1]))]_vars

\* C5 amended: a creation response with the error flag changes nothing of the
\* project and dispatches nothing, and a later get/post/put/delete on that
\* server (on any server) sends a creation POST unless the server is in the
\* created-servers set, and then it dispatches the request itself.
CreationErrorThenRetryUnlessCreated ==
    [][/\ (event'.op = "creationResponse" /\ event'.error)
            => (UNCHANGED project /\ sent' = <<>>)
       /\ event'.op \in QueryOps
            => /\ Len(sent') = 1
               /\ sent'[1].server = event'.server
               /\ IsCreationPost(sent'[1]) <=> event'.server \notin created_servers]_vars

\* A creation has failed on a server that is not created: the next call
\* will try again.
CreationFailedServerAbsent ==
    /\ event.op = "creationResponse"
    /\ event.error
    /\ event.server \notin created_servers
    /\ sent = <<>>

\* C6: close() on a project without identifier marks it closed, emits 'about
\* to close' and then 'closed', and sends nothing.
CloseWithoutIdIsSynchronous ==
    [][(event'.op = "close" /\ id = None)
          => /\ closed'
             /\ SignalNames(signals') = <<"about_to_close", "closed">>
             /\ sent' = <<>>
             /\ network' = network]_vars

\* close() was called on a project without identifier while a creation was
\* waiting for its response.
ClosedWithoutId ==
    /\ event.op = "close"
    /\ id = None
    /\ closed
    /\ network # EmptyBag

\* C7: a project-scoped request goes only to a server of the created-servers
\* set; a get/post/put/delete on a server outside the set sends the creation
\* POST alone, the succeeded creation dispatches the request, and a
\* get/post/put/delete on a server of the set dispatches at once, without
\* creation POST.
LazyProvisioning ==
    [][/\ \A i \in 1..Len(sent') :
             ~IsCreationPost(sent'[i]) => sent'[i].server \in created_servers'
       /\ (event'.op \in QueryOps /\ event'.server \notin created_servers)
            => /\ Len(sent') = 1
               /\ IsCreationPost(sent'[1])
               /\ sent'[1].server = event'.server
       /\ (event'.op \in QueryOps /\ event'.server \in created_servers)
            => /\ Len(sent') = 1
               /\ sent'[1].path = "/projects/" \o Str(id) \o event'.arg
               /\ sent'[1].server = event'.server
               /\ network' = network
       /\ (event'.op = "creationResponse" /\ event'.error) => sent' = <<>>
       /\ (event'.op = "creationResponse" /\ ~event'.error)
            => /\ Len(sent') = 1
               /\ ~IsCreationPost(sent'[1])
               /\ sent'[1].server = event'.server
       /\ event'.op = "closeResponse" => sent' = <<>>]_vars

\* A succeeded creation has dispatched the request to its server.
DispatchedAfterCreation ==
    /\ event.op = "creationResponse"
    /\ ~event.error
    /\ Len(sent) = 1
    /\ sent[1].server = event.server
    /\ sent[1].server \in created_servers
    /\ ~IsCreationPost(sent[1])

\* C8: a get/post/put/delete on a server outside the created-servers set
\* sends a creation POST also when one to that server is waiting already.
CreationNotDeduplicated ==
    [][(/\ event'.op \in QueryOps
        /\ event'.server \notin created_servers
        /\ CreationsInFlight(network, event'.server) >= 1)
          => /\ Len(sent') = 1
             /\ IsCreationPost(sent'[1])
             /\ CreationsInFlight(network', event'.server)
                  = CreationsInFlight(network, event'.server) + 1]_vars

\* Two creation requests to one server wait for their response.
TwoCreationsInFlight ==
    /\ \E s \in Servers : CreationsInFlight(network, s) >= 2
    /\ event.op \in QueryOps
    /\ Len(sent) = 1
    /\ IsCreationPost(sent[1])

\* C9: close() on a project with an identifier is followed by the project
\* being closed and the 'closed' notification, when every request is answered
\* without error.
CloseLeadsToClosed ==
    (event.op = "close" /\ Truthy(id)) ~> (closed /\ ClosedEmitted)

\* C10: moveFromTemporaryToPath(p) clears the temporary flag, sets the files
\* directory to p and sends one PUT /projects/{id} with {path: p, temporary:
\* false} to each created server, and nothing else.
MoveSendsOnePutPerServer ==
    [][event'.op = "moveFromTemporaryToPath"
          => /\ temporary' = FALSE
             /\ files_dir' = event'.arg
             /\ LET r(s) == Request(s, "PUT", "/projects/" \o Str(id), NoCallback,
                                    [path |-> event'.arg, temporary |-> FALSE], None)
                IN OneToEach(sent', created_servers, r)
             /\ network' = network]_vars

\* The project has moved while it was created on both servers.
MovedOnTwoServers ==
    /\ event.op = "moveFromTemporaryToPath"
    /\ created_servers = Servers
    /\ Len(sent) = 2
    /\ files_dir = event.arg
    /\ ~temporary

\* ------------------------------------------------------------------ more observations

\* The HTTP method and the bodies a call of get/post/put/delete passes on.
MethodOf(op) ==
    CASE op = "get" -> "GET"
      [] op = "post" -> "POST"
      [] op = "put" -> "PUT"
      [] op = "delete" -> "DELETE"

BodiesOf(op) == IF op \in {"post", "put"} THEN CallerBodies ELSE {EmptyBody}

\* The step delivers the successful response of the waiting creation m.
CreationAnswered(m) ==
    /\ event'.op = "creationResponse"
    /\ ~event'.error
    /\ IsCreation(m)
    /\ m.server = event'.server
    /\ CopiesIn(m, network') < CopiesIn(m, network)

\* C11: a call whose creation succeeds, or whose server is created already,
\* dispatches one request to that server: the caller's method, body, callback
\* and context, and the path /projects/{id}{path} with the identifier of the
\* moment of dispatch.  The partial of the creation POST holds the caller's
\* arguments, not the creation body.
DispatchCarriesCallersRequest ==
    [][/\ (event'.op = "creationResponse" /\ ~event'.error)
            => \E m \in BagToSet(network) :
                  /\ CreationAnswered(m)
                  /\ m.callback.method \in {MethodOf(op) : op \in QueryOps}
                  /\ m.callback.body \in BodiesOf("post") \cup BodiesOf("get")
                  /\ sent' = <<Request(m.server, m.callback.method,
                                       "/projects/" \o Str(id') \o m.callback.path,
                                       m.callback.callback, m.callback.body,
                                       m.callback.context)>>
       /\ (event'.op \in QueryOps /\ event'.server \in created_servers)
            => \E b \in BodiesOf(event'.op) :
                  sent' = <<Request(event'.server, MethodOf(event'.op),
                                    "/projects/" \o Str(id') \o event'.arg,
                                    CallerCallback, b, CallerContext)>>
       /\ (event'.op \in QueryOps /\ event'.server \notin created_servers)
            => \E b \in BodiesOf(event'.op) :
                  /\ Len(sent') = 1
                  /\ sent'[1].callback = Partial(MethodOf(event'.op), event'.arg,
                                                 CallerCallback, b, CallerContext)]_vars

\* A succeeded creation has dispatched the caller's PUT with the caller's body.
CallersPutDispatched ==
    /\ event.op = "creationResponse"
    /\ ~event.error
    /\ Len(sent) = 1
    /\ sent[1].method = "PUT"
    /\ sent[1].body = CallerBody
    /\ sent[1].context = CallerContext
    /\ sent[1].path = "/projects/" \o id \o "/vms"

\* The step delivers a successful creation response of the local server that
\* carries a path.
LocalPathAnswered ==
    /\ event'.op = "creationResponse"
    /\ ~event'.error
    /\ event'.server = LocalServer
    /\ "path" \in DOMAIN event'.arg

\* C12 as stated: a successful creation response adopts the identifier only
\* if none is set, and a path of the local server only if the files directory
\* is not set.
AnswerAdoptedOnlyIfUnset ==
    [][(event'.op = "creationResponse" /\ ~event'.error)
          => /\ id' = IF id = None THEN event'.arg.project_id ELSE id
             /\ files_dir' = IF LocalPathAnswered /\ files_dir = None
                             THEN event'.arg.path
                             ELSE files_dir]_vars

\* C12 amended: the identifier is adopted only if none is set; a path of the
\* local server is always adopted, whatever the files directory was.
LocalPathAlwaysAdopted ==
    [][(event'.op = "creationResponse" /\ ~event'.error)
          => /\ id' = IF id = None THEN event'.arg.project_id ELSE id
             /\ files_dir' = IF LocalPathAnswered
                             THEN event'.arg.path
                             ELSE files_dir]_vars

\* The local server has answered a creation with its path while a project_id
\* it also sent was not adopted.
LocalPathAdopted ==
    /\ event.op = "creationResponse"
    /\ ~event.error
    /\ event.server = LocalServer
    /\ "path" \in DOMAIN event.arg
    /\ files_dir = event.arg.path
    /\ event.arg.project_id # id

\* C13: the project is in the live-instance set exactly when it is not closed.
LiveSetHoldsOpenProjects == (Self \in project_instances) <=> ~closed

\* C14: the created-servers set changes only when a response is delivered:
\* no call changes it.
CallsKeepCreatedServers ==
    [][event'.op \notin {"creationResponse", "closeResponse"}
          => created_servers' = created_servers]_vars

\* A request was dispatched by a call on a server that is created, while the
\* other server is not.
CalledOnCreatedServer ==
    /\ event.op \in QueryOps
    /\ event.server \in created_servers
    /\ created_servers # Servers
    /\ Len(sent) = 1
    /\ ~IsCreationPost(sent[1])

\* C15: a creation POST carries the temporary flag and the identifier of the
\* moment of the call (None when there is none), and a path exactly when it
\* goes to the local server: the files directory.
CreationPostBody ==
    [][(event'.op \in QueryOps /\ event'.server \notin created_servers)
          => /\ Len(sent') = 1
             /\ IsCreationPost(sent'[1])
             /\ sent'[1].body.temporary = temporary
             /\ sent'[1].body.project_id = id
             /\ IF event'.server = LocalServer
                THEN /\ DOMAIN sent'[1].body = {"temporary", "project_id", "path"}
                     /\ sent'[1].body.path = files_dir
                ELSE DOMAIN sent'[1].body = {"temporary", "project_id"}]_vars

\* A creation POST for a temporary project that has an identifier and a files
\* directory was sent to the remote server.
CreationPostOfKnownProject ==
    /\ event.op \in QueryOps
    /\ event.server = RemoteServer
    /\ Len(sent) = 1
    /\ IsCreationPost(sent[1])
    /\ sent[1].body.temporary
    /\ sent[1].body.project_id \in ProjectIds
    /\ files_dir # None

\* C17: the callback of a close response never raises.
CloseResponseNeverRaises == ~(event.op = "closeResponse" /\ event.raised)

\* C18: a closed project is created on no server.
ClosedMeansNoServer == closed => created_servers = {}

\* The project was closed by the last close response, with its identifier.
ClosedOnLastResponse ==
    /\ closed
    /\ id # None
    /\ created_servers = {}
    /\ event.op = "closeResponse"
    /\ ~event.raised

\* C19: when 'closed' is emitted, closed() is true already.
ClosedEmittedWhenClosed ==
    \A i \in 1..Len(signals) : signals[i].name = "closed" => signals[i].closed

\* The identifier under which the server of the answered creation m holds the
\* project: the one the creation POST named, or else the one it returned.
CreatedAs(m, params) ==
    IF m.project_id # None THEN m.project_id ELSE params.project_id

\* C16: every server holds the project under the identifier id(): a creation
\* that succeeds created the project under the identifier the project has
\* after the response.
OneIdentifierOnAllServers ==
    [][\A m \in BagToSet(network) :
          CreationAnswered(m) => CreatedAs(m, event'.arg) = id']_vars

====
